---- MODULE Spec2Model ----
(***************************************************************************)
(* Model of download/views.py: the row producer big_csv (a Python          *)
(* generator) and the two views that deliver it, download_csv (buffered)   *)
(* and download_csv_streaming (streamed), together with the part of the    *)
(* serving stack that consumes the response a view returns.                *)
(*                                                                         *)
(* Text is a sequence of one-character strings, bytes are a sequence of    *)
(* integers in 0..255; str(), csv.writer.writerow, ''.join and the UTF-8   *)
(* encoding of the response body are computed character by character.      *)
(***************************************************************************)
EXTENDS Integers, Sequences, FiniteSets, TLC

\* ------------------------------------------------------------ bounds

\* Largest row count tried besides the literal of the views (one request).
MaxRows == 11
\* Largest row count tried when several requests are served concurrently.
MaxConcRows == 3
\* How often an exhausted generator is pulled again.
MaxPullsAfterEnd == 1

\* The row count both views pass to big_csv.
NUM_ROWS == 100

\* The requests of the concurrent specification.
Requests == {1, 2}

\* --------------------------------------------------- text and bytes

One == <<"O", "n", "e">>
Two == <<"T", "w", "o">>
Three == <<"T", "h", "r", "e", "e">>
Hello == <<"H", "e", "l", "l", "o">>
world == <<"w", "o", "r", "l", "d">>
TextCsv == <<"t", "e", "x", "t", "/", "c", "s", "v">>
Attachment ==
    <<"a", "t", "t", "a", "c", "h", "m", "e", "n", "t", ";", " ",
      "f", "i", "l", "e", "n", "a", "m", "e", "=", "b", "i", "g", ".", "c", "s", "v">>

Digits == <<"0", "1", "2", "3", "4", "5", "6", "7", "8", "9">>

\* Python's str() of an int: the decimal digits, most significant first.
RECURSIVE str(_)
str(n) ==
    IF n < 0 THEN <<"-">> \o str(-n)
    ELSE IF n < 10 THEN <<Digits[n + 1]>>
    ELSE str(n \div 10) \o <<Digits[(n % 10) + 1]>>

\* csv.writer with the default dialect (excel): delimiter ',', quotechar '"',
\* QUOTE_MINIMAL, doublequote, lineterminator '\r\n'.
Delimiter == ","
QuoteChar == "\""
LineTerminator == <<"\r", "\n">>

NeedsQuote(f) ==
    \E i \in 1..Len(f) : f[i] \in {Delimiter, QuoteChar, "\r", "\n"}

RECURSIVE DoubleQuotes(_)
DoubleQuotes(f) ==
    IF f = <<>> THEN <<>>
    ELSE (IF Head(f) = QuoteChar THEN <<QuoteChar, QuoteChar>> ELSE <<Head(f)>>)
         \o DoubleQuotes(Tail(f))

QuoteField(f) ==
    IF NeedsQuote(f) THEN <<QuoteChar>> \o DoubleQuotes(f) \o <<QuoteChar>> ELSE f

RECURSIVE JoinFields(_)
JoinFields(fs) ==
    IF fs = <<>> THEN <<>>
    ELSE IF Len(fs) = 1 THEN QuoteField(fs[1])
    ELSE QuoteField(fs[1]) \o <<Delimiter>> \o JoinFields(Tail(fs))

writerow(fs) == JoinFields(fs) \o LineTerminator

\* ''.join(parts): the parts in order, nothing between them.
\* Mutant of join: a line break put between the parts.
RECURSIVE join_newline(_)
join_newline(ps) ==
    IF ps = <<>> THEN <<>>
    ELSE IF Len(ps) = 1 THEN ps[1]
    ELSE ps[1] \o <<"\n">> \o join_newline(Tail(ps))

RECURSIVE join(_)
join(parts) ==
    IF parts = <<>> THEN <<>>
    ELSE IF Len(parts) = 1 THEN parts[1]
    ELSE LET h == Len(parts) \div 2
         IN  join(SubSeq(parts, 1, h)) \o join(SubSeq(parts, h + 1, Len(parts)))

\* The code point of every character the program writes.
Ord(c) ==
    CASE c = "\n" -> 10 [] c = "\r" -> 13 [] c = " " -> 32 [] c = "\"" -> 34
      [] c = "," -> 44 [] c = "-" -> 45 [] c = "." -> 46 [] c = "/" -> 47
      [] c = "0" -> 48 [] c = "1" -> 49 [] c = "2" -> 50 [] c = "3" -> 51
      [] c = "4" -> 52 [] c = "5" -> 53 [] c = "6" -> 54 [] c = "7" -> 55
      [] c = "8" -> 56 [] c = "9" -> 57 [] c = ";" -> 59 [] c = "=" -> 61
      [] c = "H" -> 72 [] c = "O" -> 79 [] c = "T" -> 84
      [] c = "a" -> 97 [] c = "b" -> 98 [] c = "c" -> 99 [] c = "d" -> 100
      [] c = "e" -> 101 [] c = "f" -> 102 [] c = "g" -> 103 [] c = "h" -> 104
      [] c = "i" -> 105 [] c = "l" -> 108 [] c = "m" -> 109 [] c = "n" -> 110
      [] c = "o" -> 111 [] c = "r" -> 114 [] c = "s" -> 115 [] c = "t" -> 116
      [] c = "v" -> 118 [] c = "w" -> 119 [] c = "x" -> 120

\* UTF-8 of one code point below 0x800.
Utf8(cp) ==
    IF cp < 128 THEN <<cp>>
    ELSE <<192 + (cp \div 64), 128 + (cp % 64)>>

\* HttpResponse's make_bytes: the text encoded in the response charset, utf-8.
RECURSIVE encode(_)
encode(text) ==
    IF text = <<>> THEN <<>>
    ELSE IF Len(text) = 1 THEN Utf8(Ord(text[1]))
    ELSE LET h == Len(text) \div 2
         IN  encode(SubSeq(text, 1, h)) \o encode(SubSeq(text, h + 1, Len(text)))

\* Mutant of len: the length after newline translation, "\r\n" counted once.
len_translated(text) == Cardinality({i \in 1..Len(text) : text[i] # "\r"})

\* Python's len() of a str: its number of characters.
len(text) == Len(text)

\* Mutant of Row: the data record carries the 1-based position of the row.
Row_one_based(row) ==
    IF row = 0 THEN writerow(<<One, Two, Three>>)
    ELSE writerow(<<Hello, world, str(row + 1)>>)

\* The record big_csv writes for loop index row (views.py lines 12-15); the
\* writer turns the int field into text with str().
Row(row) ==
    IF row = 0 THEN writerow(<<One, Two, Three>>)
    ELSE writerow(<<Hello, world, str(row)>>)

\* ------------------------------------------------------------- state

Views == {"download_csv", "download_csv_streaming"}

\* A row count: a Python int, or a number that is not an int (a float).
IntArg(n) == [type |-> "int", val |-> n]
FloatArg == [type |-> "float", val |-> 1]
IsInt(a) == a.type = "int"
Valid(a) == IsInt(a) /\ a.val >= 0

Args == {IntArg(n) : n \in (-1..MaxRows) \cup {NUM_ROWS}} \cup {FloatArg}
ConcArgs == {IntArg(n) : n \in -1..MaxConcRows} \cup {FloatArg}

VARIABLES
    view,       \* the view the request is routed to
    num_rows,   \* the row count the view passes to big_csv
    pc,         \* where the request is: idle, received, joining, returned,
                \* raised, streaming, sent, aborted, error
    gen,        \* the generator big_csv returned: its state and loop variable
    output,     \* the text of the StringIO of the current loop iteration
    signal,     \* how the last next() on the generator ended, until handled
    yielded,    \* every chunk the generator has yielded, in order
    parts,      \* what ''.join has collected so far
    response,   \* the response object the view returned
    wire,       \* what has been sent to the client
    pulls       \* next() calls made on the generator after it finished

vars == <<view, num_rows, pc, gen, output, signal, yielded, parts, response,
          wire, pulls>>

Errors == {"TypeError", "MemoryError"}

\* Response headers: an ordered mapping, as a sequence of <<name, value>>.
HasHeader(h, name) == \E i \in 1..Len(h) : h[i][1] = name
Header(h, name) == h[CHOOSE i \in 1..Len(h) : h[i][1] = name][2]
SetHeader(h, name, value) ==
    IF HasHeader(h, name)
    THEN [i \in 1..Len(h) |-> IF h[i][1] = name THEN <<name, value>> ELSE h[i]]
    ELSE Append(h, <<name, value>>)

\* No response object yet, nothing sent yet.
None == [kind |-> "None", status |-> 0, headers |-> <<>>, content |-> <<>>]
NothingSent == [status |-> 0, headers |-> <<>>, body |-> <<>>]

NoGen == [state |-> "none", row |-> -1]

Init ==
    /\ view = [r \in Requests |-> "none"]
    /\ num_rows = [r \in Requests |-> IntArg(0)]
    /\ pc = [r \in Requests |-> "idle"]
    /\ gen = [r \in Requests |-> NoGen]
    /\ output = [r \in Requests |-> <<>>]
    /\ signal = [r \in Requests |-> "none"]
    /\ yielded = [r \in Requests |-> <<>>]
    /\ parts = [r \in Requests |-> <<>>]
    /\ response = [r \in Requests |-> None]
    /\ wire = [r \in Requests |-> NothingSent]
    /\ pulls = [r \in Requests |-> 0]

\* ------------------------------------------------------------ routing

\* urls.py: the request is routed to one of the two views.
url_dispatch(r, v, n) ==
    /\ pc[r] = "idle"
    /\ view' = [view EXCEPT ![r] = v]
    /\ num_rows' = [num_rows EXCEPT ![r] = n]
    /\ pc' = [pc EXCEPT ![r] = "received"]
    /\ UNCHANGED <<gen, output, signal, yielded, parts, response, wire, pulls>>

\* ------------------------------------------------------------ big_csv

\* Calling big_csv runs none of its body: it returns a generator object.
big_csv(n) == [state |-> "created", row |-> -1]

\* The consumer of request r is inside next() on its generator.
Pulling(r) ==
    /\ pc[r] \in {"joining", "streaming"}
    /\ signal[r] = "none"
    /\ gen[r].state \in {"created", "suspended"}

\* Mutant of big_csv_range_error: range(int(num_rows)), the count coerced, so
\* that nothing is raised and the header row is produced.
big_csv_range_coerced(r) ==
    /\ Pulling(r)
    /\ gen[r].state = "created"
    /\ ~IsInt(num_rows[r])
    /\ gen' = [gen EXCEPT ![r] = [state |-> "running", row |-> 0]]
    /\ output' = [output EXCEPT ![r] = Row(0)]
    /\ UNCHANGED <<view, num_rows, pc, signal, yielded, parts, response, wire, pulls>>

\* Line 8 on the first next(): range(num_rows) of a non-int raises TypeError.
big_csv_range_error(r) ==
    /\ Pulling(r)
    /\ gen[r].state = "created"
    /\ ~IsInt(num_rows[r])
    /\ gen' = [gen EXCEPT ![r].state = "finished"]
    /\ signal' = [signal EXCEPT ![r] = "TypeError"]
    /\ UNCHANGED <<view, num_rows, pc, output, yielded, parts, response, wire, pulls>>

\* Line 8: the range is used up, the generator returns (StopIteration).
big_csv_exhausted(r) ==
    /\ Pulling(r)
    /\ IsInt(num_rows[r])
    /\ gen[r].row + 1 >= num_rows[r].val
    /\ gen' = [gen EXCEPT ![r].state = "finished"]
    /\ signal' = [signal EXCEPT ![r] = "StopIteration"]
    /\ UNCHANGED <<view, num_rows, pc, output, yielded, parts, response, wire, pulls>>

\* Mutant of big_csv_row: range(num_rows + 1), one row too many.
big_csv_row_one_more(r) ==
    /\ pc[r] \in {"joining", "streaming"}
    /\ signal[r] = "none"
    /\ gen[r].state \in {"created", "suspended"}
    /\ IsInt(num_rows[r])
    /\ gen[r].row + 1 < num_rows[r].val + 1
    /\ gen' = [gen EXCEPT ![r] = [state |-> "running", row |-> gen[r].row + 1]]
    /\ output' = [output EXCEPT ![r] = Row(gen[r].row + 1)]
    /\ UNCHANGED <<view, num_rows, pc, signal, yielded, parts, response, wire, pulls>>

\* Mutant of big_csv_row: the loop variable is one module-level counter that
\* every generator advances.
big_csv_row_shared(r) ==
    /\ Pulling(r)
    /\ IsInt(num_rows[r])
    /\ gen[r].row + 1 < num_rows[r].val
    /\ gen' = [q \in Requests |->
                  IF q = r THEN [state |-> "running", row |-> gen[r].row + 1]
                  ELSE IF gen[q].state \in {"created", "suspended"}
                       THEN [gen[q] EXCEPT !.row = @ + 1]
                       ELSE gen[q]]
    /\ output' = [output EXCEPT ![r] = Row(gen[r].row + 1)]
    /\ UNCHANGED <<view, num_rows, pc, signal, yielded, parts, response, wire, pulls>>

\* Lines 8-17: the next loop index, and its record written into a new StringIO.
big_csv_row(r) ==
    /\ Pulling(r)
    /\ IsInt(num_rows[r])
    /\ gen[r].row + 1 < num_rows[r].val
    /\ gen' = [gen EXCEPT ![r] = [state |-> "running", row |-> gen[r].row + 1]]
    /\ output' = [output EXCEPT ![r] = Row(gen[r].row + 1)]
    /\ UNCHANGED <<view, num_rows, pc, signal, yielded, parts, response, wire, pulls>>

\* Lines 9-17 raise (an allocation fails): the generator is finished and the
\* exception reaches whoever called next().
big_csv_raise(r) ==
    /\ Pulling(r)
    /\ IsInt(num_rows[r])
    /\ gen[r].row + 1 < num_rows[r].val
    /\ gen' = [gen EXCEPT ![r] = [state |-> "finished", row |-> gen[r].row + 1]]
    /\ signal' = [signal EXCEPT ![r] = "MemoryError"]
    /\ UNCHANGED <<view, num_rows, pc, output, yielded, parts, response, wire, pulls>>

\* Line 18: the generator suspends and hands the chunk to its consumer: ''.join
\* collects it, the streaming response encodes it and it goes to the client.
big_csv_yield(r) ==
    /\ gen[r].state = "running"
    /\ gen' = [gen EXCEPT ![r].state = "suspended"]
    /\ yielded' = [yielded EXCEPT ![r] = Append(yielded[r], output[r])]
    /\ IF pc[r] = "joining"
       THEN /\ parts' = [parts EXCEPT ![r] = Append(parts[r], output[r])]
            /\ UNCHANGED wire
       ELSE /\ wire' = [wire EXCEPT ![r].body = wire[r].body \o encode(output[r])]
            /\ UNCHANGED parts
    /\ UNCHANGED <<view, num_rows, pc, output, signal, response, pulls>>

\* next() on a finished generator: StopIteration again, no chunk.
big_csv_finished(r) ==
    /\ gen[r].state = "finished"
    /\ signal[r] = "none"
    /\ pulls[r] < MaxPullsAfterEnd
    /\ pulls' = [pulls EXCEPT ![r] = pulls[r] + 1]
    /\ UNCHANGED <<view, num_rows, pc, gen, output, signal, yielded, parts, response, wire>>

\* -------------------------------------------------------- the views

\* HttpResponse(content, content_type=...): status 200, the body encoded.
HttpResponse(content, content_type) ==
    [kind |-> "HttpResponse", status |-> 200,
     headers |-> <<<<"Content-Type", content_type>>>>,
     content |-> encode(content)]

\* StreamingHttpResponse(iterator, content_type=...): status 200; the body is
\* the iterator, of which nothing is read here.
StreamingHttpResponse(content_type) ==
    [kind |-> "StreamingHttpResponse", status |-> 200,
     headers |-> <<<<"Content-Type", content_type>>>>,
     content |-> <<>>]

\* Mutant of download_csv_call: the generator is not joined but handed to a
\* streaming response, as download_csv_streaming does.
download_csv_call_lazy(r) ==
    /\ pc[r] = "received"
    /\ view[r] = "download_csv"
    /\ gen' = [gen EXCEPT ![r] = big_csv(num_rows[r])]
    /\ LET r1 == StreamingHttpResponse(TextCsv)
           r2 == [r1 EXCEPT !.headers = SetHeader(@, "Content-Disposition", Attachment)]
       IN  response' = [response EXCEPT ![r] = r2]
    /\ pc' = [pc EXCEPT ![r] = "returned"]
    /\ UNCHANGED <<view, num_rows, output, signal, yielded, parts, wire, pulls>>

\* download_csv, line 26 up to the first next(): big_csv is called and ''.join
\* starts to drain the generator.
download_csv_call(r) ==
    /\ pc[r] = "received"
    /\ view[r] = "download_csv"
    /\ gen' = [gen EXCEPT ![r] = big_csv(num_rows[r])]
    /\ pc' = [pc EXCEPT ![r] = "joining"]
    /\ UNCHANGED <<view, num_rows, output, signal, yielded, parts, response, wire, pulls>>

\* download_csv, lines 26-31 once the generator is exhausted: the joined text,
\* the response with its three headers, the return.
download_csv_return(r) ==
    /\ pc[r] = "joining"
    /\ signal[r] = "StopIteration"
    /\ LET csv_file == join(parts[r])
           r1 == HttpResponse(csv_file, TextCsv)
           r2 == [r1 EXCEPT !.headers = SetHeader(@, "Content-Disposition", Attachment)]
           r3 == [r2 EXCEPT !.headers = SetHeader(@, "Content-Length", str(len(csv_file)))]
       IN  response' = [response EXCEPT ![r] = r3]
    /\ signal' = [signal EXCEPT ![r] = "none"]
    /\ pc' = [pc EXCEPT ![r] = "returned"]
    /\ UNCHANGED <<view, num_rows, gen, output, yielded, parts, wire, pulls>>

\* Mutant of download_csv_raise: the exception is swallowed and the rows joined
\* so far are returned as the response.
download_csv_raise_partial(r) ==
    /\ pc[r] = "joining"
    /\ signal[r] \in Errors
    /\ LET csv_file == join(parts[r])
           r1 == HttpResponse(csv_file, TextCsv)
           r2 == [r1 EXCEPT !.headers = SetHeader(@, "Content-Disposition", Attachment)]
           r3 == [r2 EXCEPT !.headers = SetHeader(@, "Content-Length", str(len(csv_file)))]
       IN  response' = [response EXCEPT ![r] = r3]
    /\ signal' = [signal EXCEPT ![r] = "none"]
    /\ pc' = [pc EXCEPT ![r] = "returned"]
    /\ UNCHANGED <<view, num_rows, gen, output, yielded, parts, wire, pulls>>

\* download_csv, line 26 when next() raises: the exception leaves the view,
\* lines 27-31 never run.
download_csv_raise(r) ==
    /\ pc[r] = "joining"
    /\ signal[r] \in Errors
    /\ signal' = [signal EXCEPT ![r] = "none"]
    /\ pc' = [pc EXCEPT ![r] = "raised"]
    /\ UNCHANGED <<view, num_rows, gen, output, yielded, parts, response, wire, pulls>>

\* Mutant of download_csv_streaming: a Content-Length header is set as well.
download_csv_streaming_with_length(r) ==
    /\ pc[r] = "received"
    /\ view[r] = "download_csv_streaming"
    /\ gen' = [gen EXCEPT ![r] = big_csv(num_rows[r])]
    /\ LET r1 == StreamingHttpResponse(TextCsv)
           r2 == [r1 EXCEPT !.headers = SetHeader(@, "Content-Disposition", Attachment)]
           r3 == [r2 EXCEPT !.headers = SetHeader(@, "Content-Length", str(0))]
       IN  response' = [response EXCEPT ![r] = r3]
    /\ pc' = [pc EXCEPT ![r] = "returned"]
    /\ UNCHANGED <<view, num_rows, output, signal, yielded, parts, wire, pulls>>

\* Mutant of download_csv_streaming: list(big_csv(...)), the generator drained
\* inside the view before the response is built.
download_csv_streaming_eager(r) ==
    /\ pc[r] = "received"
    /\ view[r] = "download_csv_streaming"
    /\ IF Valid(num_rows[r]) /\ num_rows[r].val >= 1
       THEN /\ gen' = [gen EXCEPT ![r] =
                          [state |-> "suspended", row |-> num_rows[r].val - 1]]
            /\ yielded' = [yielded EXCEPT ![r] =
                              [i \in 1..num_rows[r].val |-> Row(i - 1)]]
       ELSE /\ gen' = [gen EXCEPT ![r] = big_csv(num_rows[r])]
            /\ UNCHANGED yielded
    /\ LET r1 == StreamingHttpResponse(TextCsv)
           r2 == [r1 EXCEPT !.headers = SetHeader(@, "Content-Disposition", Attachment)]
       IN  response' = [response EXCEPT ![r] = r2]
    /\ pc' = [pc EXCEPT ![r] = "returned"]
    /\ UNCHANGED <<view, num_rows, output, signal, parts, wire, pulls>>

\* download_csv_streaming, lines 40-43: the generator is created and given to
\* the response unread, one header is added, the response is returned.
download_csv_streaming(r) ==
    /\ pc[r] = "received"
    /\ view[r] = "download_csv_streaming"
    /\ gen' = [gen EXCEPT ![r] = big_csv(num_rows[r])]
    /\ LET r1 == StreamingHttpResponse(TextCsv)
           r2 == [r1 EXCEPT !.headers = SetHeader(@, "Content-Disposition", Attachment)]
       IN  response' = [response EXCEPT ![r] = r2]
    /\ pc' = [pc EXCEPT ![r] = "returned"]
    /\ UNCHANGED <<view, num_rows, output, signal, yielded, parts, wire, pulls>>

\* ---------------------------------------------------- the transport

\* A complete response is sent in one piece: status, headers and body.
send_response(r) ==
    /\ pc[r] = "returned"
    /\ response[r].kind = "HttpResponse"
    /\ wire' = [wire EXCEPT ![r] = [status |-> response[r].status,
                                    headers |-> response[r].headers,
                                    body |-> response[r].content]]
    /\ pc' = [pc EXCEPT ![r] = "sent"]
    /\ UNCHANGED <<view, num_rows, gen, output, signal, yielded, parts, response, pulls>>

\* A streaming response: status and headers are committed, then the body is
\* pulled chunk by chunk.
start_streaming(r) ==
    /\ pc[r] = "returned"
    /\ response[r].kind = "StreamingHttpResponse"
    /\ wire' = [wire EXCEPT ![r] = [status |-> response[r].status,
                                    headers |-> response[r].headers,
                                    body |-> <<>>]]
    /\ pc' = [pc EXCEPT ![r] = "streaming"]
    /\ UNCHANGED <<view, num_rows, gen, output, signal, yielded, parts, response, pulls>>

\* The body iterator is exhausted: the response is fully sent.
end_streaming(r) ==
    /\ pc[r] = "streaming"
    /\ signal[r] = "StopIteration"
    /\ signal' = [signal EXCEPT ![r] = "none"]
    /\ pc' = [pc EXCEPT ![r] = "sent"]
    /\ UNCHANGED <<view, num_rows, gen, output, yielded, parts, response, wire, pulls>>

\* The body iterator raises: what was sent stays sent, the response is aborted.
abort_streaming(r) ==
    /\ pc[r] = "streaming"
    /\ signal[r] \in Errors
    /\ signal' = [signal EXCEPT ![r] = "none"]
    /\ pc' = [pc EXCEPT ![r] = "aborted"]
    /\ UNCHANGED <<view, num_rows, gen, output, yielded, parts, response, wire, pulls>>

\* An exception left the view before any response: an error response is sent.
error_response(r) ==
    /\ pc[r] = "raised"
    /\ wire' = [wire EXCEPT ![r] = [status |-> 500, headers |-> <<>>, body |-> <<>>]]
    /\ pc' = [pc EXCEPT ![r] = "error"]
    /\ UNCHANGED <<view, num_rows, gen, output, signal, yielded, parts, response, pulls>>

\* ------------------------------------------------ the specifications

Step(r) ==
    \/ download_csv_call(r)
    \/ download_csv_return(r)
    \/ download_csv_raise(r)
    \/ download_csv_streaming(r)
    \/ big_csv_range_error(r)
    \/ big_csv_exhausted(r)
    \/ big_csv_row(r)
    \/ big_csv_raise(r)
    \/ big_csv_yield(r)
    \/ big_csv_finished(r)
    \/ send_response(r)
    \/ start_streaming(r)
    \/ end_streaming(r)
    \/ abort_streaming(r)
    \/ error_response(r)

\* One request, every row count up to MaxRows and the views' own NUM_ROWS.
Next ==
    \/ \E v \in Views, n \in Args : url_dispatch(1, v, n)
    \/ Step(1)

Spec == Init /\ [][Next]_vars

\* Several requests served concurrently, their steps interleaved.
NextConc ==
    \/ \E r \in Requests, v \in Views, n \in ConcArgs : url_dispatch(r, v, n)
    \/ \E r \in Requests : Step(r)

SpecConc == Init /\ [][NextConc]_vars

\* ------------------------------------------- reading the output back

\* int() of a decimal text.
DigitValue(c) == CHOOSE d \in 0..9 : Digits[d + 1] = c
IsDecimal(t) == Len(t) >= 1 /\ \A i \in 1..Len(t) : \E d \in 0..9 : Digits[d + 1] = t[i]
RECURSIVE int(_)
int(t) ==
    IF Len(t) = 1 THEN DigitValue(t[1])
    ELSE 10 * int(SubSeq(t, 1, Len(t) - 1)) + DigitValue(t[Len(t)])

\* The fields of one record that has no quoted field.
RECURSIVE split(_)
split(t) ==
    IF \A i \in 1..Len(t) : t[i] # ","
    THEN <<t>>
    ELSE LET i == CHOOSE j \in 1..Len(t) :
                      t[j] = "," /\ \A k \in 1..(j - 1) : t[k] # ","
         IN  <<SubSeq(t, 1, i - 1)>> \o split(SubSeq(t, i + 1, Len(t)))
Terminated(chunk) ==
    /\ Len(chunk) >= 2
    /\ SubSeq(chunk, Len(chunk) - 1, Len(chunk)) = <<"\r", "\n">>
    /\ \A i \in 1..(Len(chunk) - 2) : chunk[i] \notin {"\r", "\n", "\""}
decode(chunk) == split(SubSeq(chunk, 1, Len(chunk) - 2))

IsPrefix(s, t) == Len(s) <= Len(t) /\ SubSeq(t, 1, Len(s)) = s

\* The generator of request r ran to the end of its range, nothing raised.
Drained(r) ==
    /\ gen[r].state = "finished"
    /\ signal[r] \notin Errors
    /\ pc[r] \notin {"raised", "error", "aborted"}

\* ------------------------------------------------------------ claims

\* C1: for every row count n >= 0 the generator yields at most n chunks, and
\* exactly n once it has been drained, however often it is pulled afterwards;
\* for n = 0 it yields none.
C1_ExactlyNChunks ==
    \A r \in Requests :
        Valid(num_rows[r]) =>
            /\ Len(yielded[r]) <= num_rows[r].val
            /\ Drained(r) => Len(yielded[r]) = num_rows[r].val

C1_Witness ==
    /\ num_rows[1] = IntArg(NUM_ROWS)
    /\ Drained(1)
    /\ pulls[1] >= 1
    /\ Len(yielded[1]) = NUM_ROWS

\* C2: the k-th chunk yielded is the record of index k - 1: the first reads
\* back as One,Two,Three, every later one as Hello,world,i with i = k - 1.
C2_ChunkOrderAndContent ==
    \A r \in Requests :
        Valid(num_rows[r]) =>
            \A k \in 1..Len(yielded[r]) :
                /\ Terminated(yielded[r][k])
                /\ LET f == decode(yielded[r][k])
                   IN  IF k = 1
                       THEN f = <<One, Two, Three>>
                       ELSE /\ Len(f) = 3
                            /\ f[1] = Hello
                            /\ f[2] = world
                            /\ IsDecimal(f[3])
                            /\ int(f[3]) = k - 1

C2_Witness ==
    /\ num_rows[1] = IntArg(NUM_ROWS)
    /\ Len(yielded[1]) = NUM_ROWS
    /\ yielded[1][1] = <<"O", "n", "e", ",", "T", "w", "o", ",", "T", "h", "r", "e", "e", "\r", "\n">>
    /\ yielded[1][NUM_ROWS] =
           <<"H", "e", "l", "l", "o", ",", "w", "o", "r", "l", "d", ",", "9", "9", "\r", "\n">>

\* C3: for the same row count, the body a drained streaming response put on
\* the wire equals the body of the buffered response, the chunks in order.
C3_StreamingEqualsBuffered ==
    \A b \in Requests, s \in Requests :
        ( /\ view[b] = "download_csv"
          /\ view[s] = "download_csv_streaming"
          /\ num_rows[b] = num_rows[s]
          /\ pc[b] = "sent"
          /\ pc[s] = "sent" ) =>
            /\ wire[s].body = wire[b].body
            /\ wire[s].body = encode(join(yielded[b]))

C3_Witness ==
    /\ view[1] = "download_csv"
    /\ view[2] = "download_csv_streaming"
    /\ num_rows[1] = IntArg(2)
    /\ num_rows[2] = IntArg(2)
    /\ pc[1] = "sent"
    /\ pc[2] = "sent"
    /\ Len(wire[2].body) = 30

\* C4: the Content-Length of the buffered response is the number of bytes of
\* its body, in the response object and on the wire; no rows, no bytes.
C4_ContentLengthIsBodyLength ==
    \A r \in Requests :
        (view[r] = "download_csv" /\ response[r] # None) =>
            /\ HasHeader(response[r].headers, "Content-Length")
            /\ IsDecimal(Header(response[r].headers, "Content-Length"))
            /\ int(Header(response[r].headers, "Content-Length")) = Len(response[r].content)
            /\ pc[r] = "sent" =>
                   /\ HasHeader(wire[r].headers, "Content-Length")
                   /\ int(Header(wire[r].headers, "Content-Length")) = Len(wire[r].body)
            /\ num_rows[r] = IntArg(0) =>
                   /\ response[r].content = <<>>
                   /\ Header(response[r].headers, "Content-Length") = <<"0">>

C4_Witness ==
    /\ view[1] = "download_csv"
    /\ num_rows[1] = IntArg(NUM_ROWS)
    /\ pc[1] = "sent"
    /\ Len(wire[1].body) > 1000
    /\ int(Header(wire[1].headers, "Content-Length")) = Len(wire[1].body)

\* C5: both responses carry Content-Type text/csv and Content-Disposition
\* attachment; filename=big.csv; the buffered one carries a Content-Length,
\* the streaming one none, as constructed and as sent, to the end of the stream.
HeadersOk(h, kind) ==
    /\ HasHeader(h, "Content-Type")
    /\ Header(h, "Content-Type") = TextCsv
    /\ HasHeader(h, "Content-Disposition")
    /\ Header(h, "Content-Disposition") = Attachment
    /\ HasHeader(h, "Content-Length") <=> kind = "HttpResponse"

C5_Headers ==
    \A r \in Requests :
        /\ response[r] # None =>
               /\ response[r].kind =
                      (IF view[r] = "download_csv" THEN "HttpResponse"
                       ELSE "StreamingHttpResponse")
               /\ HeadersOk(response[r].headers, response[r].kind)
        /\ wire[r].status = 200 => HeadersOk(wire[r].headers, response[r].kind)

C5_Witness ==
    /\ view[1] = "download_csv_streaming"
    /\ num_rows[1] = IntArg(NUM_ROWS)
    /\ pc[1] = "sent"
    /\ Len(yielded[1]) = NUM_ROWS
    /\ ~HasHeader(wire[1].headers, "Content-Length")

\* The number of chunks a row count stands for.
RowCount(a) == IF a.val < 0 THEN 0 ELSE a.val

\* C6: the buffered view hands nothing to the transport before its generator
\* is finished; when row generation raises at any index, nothing has been sent,
\* no response object exists and the error response can still be sent; a
\* response that is sent carries every row.
C6_BufferedSendsNothingEarly ==
    \A r \in Requests :
        view[r] = "download_csv" =>
            /\ wire[r] # NothingSent => gen[r].state = "finished"
            /\ pc[r] \in {"joining", "raised"} =>
                   /\ wire[r] = NothingSent
                   /\ response[r] = None
            /\ pc[r] = "raised" => ENABLED error_response(r)
            /\ pc[r] = "error" => (wire[r].status = 500 /\ wire[r].body = <<>>)
            /\ wire[r].status = 200 =>
                   /\ IsInt(num_rows[r])
                   /\ Len(yielded[r]) = RowCount(num_rows[r])
                   /\ wire[r].body = encode(join(yielded[r]))

C6_Witness ==
    /\ view[1] = "download_csv"
    /\ num_rows[1] = IntArg(NUM_ROWS)
    /\ pc[1] = "raised"
    /\ Len(yielded[1]) = 40
    /\ wire[1] = NothingSent

\* C7: when row generation raises in the streaming view after at least one
\* chunk was sent, the next step of the request is the abort and it sends
\* nothing; an aborted request is a streaming one, keeps status 200 and exactly
\* the chunks yielded, and stays aborted; committed status and headers are never
\* rewritten and the bytes sent only grow.
C7_Step(r) ==
    /\ ( /\ view[r] = "download_csv_streaming"
         /\ signal[r] \in Errors
         /\ Len(yielded[r]) >= 1 ) =>
            /\ pc'[r] = "aborted"
            /\ wire'[r] = wire[r]
    /\ pc'[r] = "aborted" =>
            /\ view'[r] = "download_csv_streaming"
            /\ wire'[r].status = 200
            /\ wire'[r].body = encode(join(yielded'[r]))
    /\ pc[r] = "aborted" =>
            /\ pc'[r] = "aborted"
            /\ wire'[r] = wire[r]
            /\ yielded'[r] = yielded[r]
    /\ wire[r].status = 200 =>
            /\ wire'[r].status = 200
            /\ wire'[r].headers = wire[r].headers
            /\ IsPrefix(wire[r].body, wire'[r].body)

C7_AbortedMidStream == [][\A r \in Requests : C7_Step(r)]_vars

C7_Witness ==
    /\ view[1] = "download_csv_streaming"
    /\ num_rows[1] = IntArg(NUM_ROWS)
    /\ pc[1] = "aborted"
    /\ Len(yielded[1]) = 40
    /\ wire[1].status = 200
    /\ Len(wire[1].body) = 15 + 9 * 15 + 30 * 16
    /\ pulls[1] = 1

\* C8 as claimed: a row count that is negative or no integer never gets as far
\* as a response object, and no successful response is sent for it.
C8_FailsFast ==
    \A r \in Requests :
        (pc[r] # "idle" /\ ~Valid(num_rows[r])) =>
            /\ response[r] = None
            /\ wire[r].status # 200

\* C8 as amended: a negative row count raises nothing and ends in a complete
\* empty response; a non-integer row count yields no chunk and never ends in a
\* complete response: the buffered view raises before any response object
\* exists, the streaming view has built and returned its response when the
\* TypeError is raised at the first pull.
C8_InvalidRowCount ==
    \A r \in Requests :
        /\ (pc[r] # "idle" /\ IsInt(num_rows[r]) /\ num_rows[r].val < 0) =>
               /\ yielded[r] = <<>>
               /\ signal[r] \notin Errors
               /\ pc[r] \notin {"raised", "error", "aborted"}
               /\ pc[r] = "sent" => (wire[r].status = 200 /\ wire[r].body = <<>>)
        /\ (pc[r] # "idle" /\ ~IsInt(num_rows[r])) =>
               /\ yielded[r] = <<>>
               /\ pc[r] # "sent"
               /\ view[r] = "download_csv" =>
                      (response[r] = None /\ wire[r].status # 200)
               /\ (view[r] = "download_csv_streaming" /\ gen[r].state = "finished") =>
                      (response[r] # None /\ pc[r] \in {"streaming", "aborted"})

C8_Witness ==
    /\ view[1] = "download_csv_streaming"
    /\ num_rows[1] = FloatArg
    /\ signal[1] = "TypeError"
    /\ response[1] # None
    /\ yielded[1] = <<>>

\* C9: the streaming view returns with no row computed; afterwards the rows
\* computed are never more than one ahead of the chunks handed over, and every
\* chunk handed over is on the wire.
C9_PullDriven ==
    \A r \in Requests :
        view[r] = "download_csv_streaming" =>
            /\ pc[r] \in {"received", "returned"} =>
                   /\ gen[r].row = -1
                   /\ gen[r].state \in {"none", "created"}
                   /\ yielded[r] = <<>>
            /\ gen[r].row + 1 <= Len(yielded[r]) + 1
            /\ gen[r].state = "suspended" => gen[r].row + 1 = Len(yielded[r])
            /\ wire[r].body = encode(join(yielded[r]))

C9_Witness ==
    /\ view[1] = "download_csv_streaming"
    /\ num_rows[1] = IntArg(NUM_ROWS)
    /\ gen[1].state = "running"
    /\ gen[1].row = 50
    /\ Len(yielded[1]) = 50
    /\ Len(wire[1].body) = 15 + 9 * 15 + 40 * 16

\* The chunks big_csv yields for a row count when it is served alone.
Alone(a) == [i \in 1..a.val |-> Row(i - 1)]

\* What belongs to request r.
Own(r) == <<view[r], num_rows[r], pc[r], gen[r], output[r], signal[r],
            yielded[r], parts[r], response[r], wire[r], pulls[r]>>

\* C10: under every interleaving each request is yielded a prefix of the
\* chunks it gets when served alone, and all of them once drained; a step of
\* one request changes nothing of another; a finished generator stays
\* finished and yields nothing more.
C10_Step ==
    /\ \A r \in Requests :
           /\ Valid(num_rows'[r]) =>
                  /\ IsPrefix(yielded'[r], Alone(num_rows'[r]))
                  /\ Drained(r)' => yielded'[r] = Alone(num_rows'[r])
           /\ gen[r].state = "finished" =>
                  /\ gen'[r] = gen[r]
                  /\ yielded'[r] = yielded[r]
    /\ \E r \in Requests : \A q \in Requests \ {r} : Own(q)' = Own(q)

C10_Independent == [][C10_Step]_vars

C10_Witness ==
    /\ view[1] = "download_csv_streaming"
    /\ num_rows[1] = IntArg(3)
    /\ gen[1].state = "suspended"
    /\ Len(yielded[1]) = 1
    /\ view[2] = "download_csv"
    /\ num_rows[2] = IntArg(2)
    /\ Drained(2)
    /\ pulls[2] = 1
    /\ Len(yielded[2]) = 2

====
